---- MODULE Spec2Model ----
(***************************************************************************)
(* The AnythingLLM client of the rag-ingestor scripts                      *)
(* (ingest_redmine_to_anyllm.py, ingest_wikijs_to_anyllm.py): route        *)
(* discovery, the multipart upload ladder, the identifier extractor, the   *)
(* batched attach, embed and the list probe, as one state machine, plus a  *)
(* harness that applies the pure extractors to bounded JSON inputs.        *)
(***************************************************************************)
EXTENDS Integers, Sequences, FiniteSets, TLC

VARIABLES
    pc,             \* where the run of push_to_anythingllm stands
    probe,          \* _fetch_openapi: index of the next candidate path
    probed,         \* the description URLs requested so far, in order
    openapi,        \* the description _fetch_openapi returned, if any
    self_paths,     \* self.paths, the route table
    nfiles,         \* number of exported *.md files
    file,           \* index of the file being uploaded
    rung,           \* upload_to_workspace_or_user: the route being tried
    field,          \* _try_upload: index of the multipart field name
    attempts,       \* the POSTs issued for the current file, in order
    last,           \* how the most recent upload attempt ended
    up_ret,         \* what upload_to_workspace_or_user returned for the file
    uploaded_ids,   \* the accumulated identifier list
    offset,         \* offset of the next attach batch
    attach_calls,   \* the attach requests issued, in order
    attached_total, \* the attached total reported
    embed_calls,    \* the embed requests issued, in order
    list_calls,     \* the list requests issued, in order
    n_docs,         \* what list_workspace_docs returned
    ret,            \* what push_to_anythingllm returned
    exc,            \* the call an exception left the run from
    cfg,            \* the configuration read from the environment
    probe_resp,     \* _fetch_openapi: the response to the latest GET
    xin,            \* harness: the JSON value handed to the extractors
    xout,           \* harness: result of the redmine ingestor's _extract_ids
    xwiki,          \* harness: result of the wiki ingestor's _extract_ids
    src             \* the source-system reader (Redmine.iter_issues)

pvars == <<pc, probe, probed, openapi, self_paths, nfiles, file, rung, field, attempts,
           last, up_ret, uploaded_ids, offset, attach_calls, attached_total,
           embed_calls, list_calls, n_docs, ret, exc, cfg, probe_resp>>
xvars == <<xin, xout, xwiki>>
vars == <<pvars, xvars, src>>

(***************************************************************************)
(* Bounds of the model.                                                    *)
(***************************************************************************)
MaxLen == 2      \* longest generated JSON list
MaxKeys == 2     \* most keys in a generated JSON mapping
MaxFiles == 2    \* most exported files of a run
BulkLen == 225   \* identifiers in the largest upload response
MaxPage == 1     \* most issues in one page of the issue tracker
MaxTotal == 2    \* largest total_count the issue tracker reports
MaxRequests == 3 \* the count of page requests saturates here (its parity is kept)

(***************************************************************************)
(* JSON values as parsed by r.json(): None, bool, int, str, list, dict.    *)
(* A dict is the sequence of its (key, value) items in insertion order.    *)
(***************************************************************************)
JNull == [t |-> "null"]
JBool(b) == [t |-> "bool", b |-> b]
JNum(n) == [t |-> "num", n |-> n]
JStr(s) == [t |-> "str", s |-> s]
JList(xs) == [t |-> "list", xs |-> xs]
JDict(kv) == [t |-> "dict", kv |-> kv]
KV(k, v) == [k |-> k, v |-> v]

IsDict(j) == j.t = "dict"
IsList(j) == j.t = "list"

\* `key in data` for a dict
HasKey(d, key) == \E i \in 1..Len(d.kv) : d.kv[i].k = key

\* `data[key]` for a dict holding key
Item(d, key) == d.kv[CHOOSE i \in 1..Len(d.kv) : d.kv[i].k = key].v

\* `x.get(key, default)` for a dict x
DictGet(d, key, default) == IF HasKey(d, key) THEN Item(d, key) ELSE default

(***************************************************************************)
(* str() and repr() of a JSON value, as Python prints them.                *)
(***************************************************************************)
Digit == <<"0", "1", "2", "3", "4", "5", "6", "7", "8", "9">>

RECURSIVE NatStr(_)
NatStr(n) ==
    IF n < 10 THEN Digit[n + 1]
    ELSE NatStr(n \div 10) \o Digit[(n % 10) + 1]

IntStr(n) == IF n < 0 THEN "-" \o NatStr(-n) ELSE NatStr(n)

RECURSIVE PyRepr(_)
RECURSIVE ReprItems(_, _)
RECURSIVE ReprPairs(_, _)

\* "e1, e2, ..." of the elements xs[i..]
ReprItems(xs, i) ==
    IF i > Len(xs) THEN ""
    ELSE PyRepr(xs[i]) \o (IF i < Len(xs) THEN ", " ELSE "") \o ReprItems(xs, i + 1)

\* "'k1': v1, 'k2': v2, ..." of the items kv[i..]
ReprPairs(kv, i) ==
    IF i > Len(kv) THEN ""
    ELSE "'" \o kv[i].k \o "': " \o PyRepr(kv[i].v)
         \o (IF i < Len(kv) THEN ", " ELSE "") \o ReprPairs(kv, i + 1)

PyRepr(j) ==
    CASE j.t = "null" -> "None"
      [] j.t = "bool" -> (IF j.b THEN "True" ELSE "False")
      [] j.t = "num"  -> IntStr(j.n)
      [] j.t = "str"  -> "'" \o j.s \o "'"
      [] j.t = "list" -> "[" \o ReprItems(j.xs, 1) \o "]"
      [] j.t = "dict" -> "{" \o ReprPairs(j.kv, 1) \o "}"

\* str(v): a str is itself, anything else prints as its repr
PyStr(j) == IF j.t = "str" THEN j.s ELSE PyRepr(j)

(***************************************************************************)
(* Outcome of a call: it returns a value or an exception leaves it.        *)
(***************************************************************************)
Returned(v) == [exc |-> "none", val |-> v]
Raised(e) == [exc |-> e, val |-> <<>>]

(***************************************************************************)
(* AnythingLLM._extract_ids, issue-tracker ingestor.                       *)
(***************************************************************************)
ListKeys == <<"ids", "document_ids", "documents_ids">>
OneKeys == <<"id", "document_id", "documentId">>

\* [str(x.get("id", x)) for x in xs]: x.get exists on a dict only
IdOrSelf(xs) ==
    IF \E i \in 1..Len(xs) : ~IsDict(xs[i])
    THEN Raised("AttributeError")
    ELSE Returned([i \in 1..Len(xs) |-> PyStr(DictGet(xs[i], "id", xs[i]))])

\* the first key of the loop over ListKeys that is in data and holds a list
ListKeyHits(data) ==
    {i \in 1..Len(ListKeys) : HasKey(data, ListKeys[i]) /\ IsList(Item(data, ListKeys[i]))}

\* the first key of the loop over OneKeys that is in data
OneKeyHits(data) == {i \in 1..Len(OneKeys) : HasKey(data, OneKeys[i])}

Min(S) == CHOOSE m \in S : \A n \in S : m <= n

\* out.append(str(d["id"])) for every dict d of xs holding "id"
RECURSIVE DocIds(_, _)
DocIds(xs, i) ==
    IF i > Len(xs) THEN <<>>
    ELSE (IF IsDict(xs[i]) /\ HasKey(xs[i], "id")
          THEN <<PyStr(Item(xs[i], "id"))>> ELSE <<>>) \o DocIds(xs, i + 1)

\* the loop over a bare list: d["id"] of a dict holding it, else str(d)
BareListIds(xs) ==
    [i \in 1..Len(xs) |->
        IF IsDict(xs[i]) /\ HasKey(xs[i], "id")
        THEN PyStr(Item(xs[i], "id")) ELSE PyStr(xs[i])]

RECURSIVE extract_ids(_)
extract_ids(data) ==
    IF data.t = "null" THEN Returned(<<>>)
    ELSE IF IsDict(data) THEN
        IF ListKeyHits(data) # {}
        THEN IdOrSelf(Item(data, ListKeys[Min(ListKeyHits(data))]).xs)
        ELSE IF OneKeyHits(data) # {}
        THEN Returned(<<PyStr(Item(data, OneKeys[Min(OneKeyHits(data))]))>>)
        ELSE IF /\ HasKey(data, "documents")
                /\ IsList(Item(data, "documents"))
                /\ DocIds(Item(data, "documents").xs, 1) # <<>>
        THEN Returned(DocIds(Item(data, "documents").xs, 1))
        ELSE IF HasKey(data, "result") THEN extract_ids(Item(data, "result"))
        ELSE IF HasKey(data, "data") THEN extract_ids(Item(data, "data"))
        ELSE Returned(<<>>)
    ELSE IF IsList(data) THEN Returned(BareListIds(data.xs))
    ELSE Returned(<<>>)

(***************************************************************************)
(* AnythingLLM._extract_ids, wiki ingestor: no unwrapping, no bare list.   *)
(***************************************************************************)
wiki_extract_ids(data) ==
    IF data.t = "null" THEN Returned(<<>>)
    ELSE IF IsDict(data) THEN
        IF ListKeyHits(data) # {}
        THEN IdOrSelf(Item(data, ListKeys[Min(ListKeyHits(data))]).xs)
        ELSE IF OneKeyHits(data) # {}
        THEN Returned(<<PyStr(Item(data, OneKeys[Min(OneKeyHits(data))]))>>)
        ELSE IF HasKey(data, "documents") /\ IsList(Item(data, "documents"))
        THEN Returned(DocIds(Item(data, "documents").xs, 1))
        ELSE Returned(<<>>)
    ELSE Returned(<<>>)

(***************************************************************************)
(* Text operations of str: `sub in s`, startswith, replace, lower.         *)
(***************************************************************************)
Contains(s, sub) ==
    \E i \in 1..(Len(s) - Len(sub) + 1) : SubSeq(s, i, i + Len(sub) - 1) = sub

StartsWith(s, pre) == Len(s) >= Len(pre) /\ SubSeq(s, 1, Len(pre)) = pre

RECURSIVE Replace(_, _, _)
Replace(s, old, new) ==
    IF Len(s) < Len(old) THEN s
    ELSE IF SubSeq(s, 1, Len(old)) = old
    THEN new \o Replace(SubSeq(s, Len(old) + 1, Len(s)), old, new)
    ELSE Head(s) \o Replace(Tail(s), old, new)

\* str.lower() on one character
LowerTable ==
    [A |-> "a", B |-> "b", C |-> "c", D |-> "d", E |-> "e", F |-> "f",
     G |-> "g", H |-> "h", I |-> "i", J |-> "j", K |-> "k", L |-> "l",
     M |-> "m", N |-> "n", O |-> "o", P |-> "p", Q |-> "q", R |-> "r",
     S |-> "s", T |-> "t", U |-> "u", V |-> "v", W |-> "w", X |-> "x",
     Y |-> "y", Z |-> "z"]

LowerChar(c) == IF c \in DOMAIN LowerTable THEN LowerTable[c] ELSE c

RECURSIVE Lower(_)
Lower(s) == IF Len(s) = 0 THEN s ELSE LowerChar(Head(s)) \o Lower(Tail(s))

(***************************************************************************)
(* Configuration handed to the constructor: ANYL_BASE_URL, ANYL_WORKSPACE. *)
(***************************************************************************)
Base == "http://anyl"
Ws == "default"

(***************************************************************************)
(* HTTP responses. A request either raises (connection error, timeout) or  *)
(* returns a status, a Content-Type and a body; r.json() either raises or  *)
(* gives the parsed JSON value.                                            *)
(***************************************************************************)
Transport == [kind |-> "exc"]
Http(status, ctype, parsable, json) ==
    [kind |-> "http", status |-> status, ctype |-> ctype,
     parsable |-> parsable, json |-> json]

Statuses == {200, 201, 404}

ContentTypes == {"application/json; charset=utf-8", "text/html",
                 "text/plain; was=application/json"}

\* the answers to one request: the request raises, or an error status comes
\* with an error page, or a 2xx status with a body that is one of bodies
\* or is not JSON at all
Responses(statuses, ctypes, bodies) ==
    LET ok == {s \in statuses : s \div 100 = 2}
    IN  {Transport}
        \cup {Http(s, "text/html", FALSE, JNull) : s \in statuses \ ok}
        \cup {Http(s, ct, FALSE, JNull) : s \in ok, ct \in ctypes}
        \cup {Http(s, ct, TRUE, b) : s \in ok, ct \in ctypes, b \in bodies}

\* r.status_code // 100 == 2
Is2xx(r) == r.status \div 100 = 2

(***************************************************************************)
(* AnythingLLM._fetch_openapi: one probe's verdict.                        *)
(***************************************************************************)
ProbePaths == <<"/api/docs-json", "/api/openapi.json", "/api/docs.json">>

ProbeAcceptsAny2xx(r) ==
    /\ r.kind = "http"
    /\ r.status \div 100 = 2
    /\ Contains(r.ctype, "application/json")
    /\ r.parsable

\* the response is returned as the description (r.json() did not raise)
ProbeAccepts(r) ==
    /\ r.kind = "http"
    /\ r.status = 200
    /\ Contains(r.ctype, "application/json")
    /\ r.parsable

(***************************************************************************)
(* AnythingLLM._discover_paths.                                            *)
(***************************************************************************)
NONE == "<None>"   \* Python's None in the route table

Ops == {"upload_ws", "upload_user", "attach", "embed", "list_ws_docs"}

NoPaths == [o \in Ops |-> NONE]

Defaults ==
    [upload_ws    |-> "/api/v1/document/upload",
     upload_user  |-> "/api/v1/document/upload",
     attach       |-> "/api/v1/workspaces/{workspace}/documents/attach",
     embed        |-> "/api/v1/workspaces/{workspace}/documents/embed",
     list_ws_docs |-> "/api/v1/workspaces/{workspace}/documents"]

\* bool(x) of a JSON value
Truthy(j) ==
    CASE j.t = "null" -> FALSE
      [] j.t = "bool" -> j.b
      [] j.t = "num"  -> j.n # 0
      [] j.t = "str"  -> j.s # ""
      [] j.t = "list" -> j.xs # <<>>
      [] j.t = "dict" -> j.kv # <<>>

\* `"paths" in spec`: key of a dict, element of a list, substring of a str;
\* a number or a bool is not iterable
InRaises(j) == j.t \in {"num", "bool", "null"}
In(key, j) ==
    CASE j.t = "dict" -> HasKey(j, key)
      [] j.t = "list" -> \E i \in 1..Len(j.xs) : j.xs[i] = JStr(key)
      [] j.t = "str"  -> Contains(j.s, key)
      [] OTHER        -> FALSE

\* the five tests of the scan loop on one path p with methods ops
MatchUploadWs(p_l, ops) ==
    Contains(p_l, "workspaces") /\ Contains(p_l, "upload") /\ "post" \in ops
MatchUploadUser(p_l, ops) ==
    /\ Contains(p_l, "documents") /\ Contains(p_l, "upload")
    /\ ~Contains(p_l, "workspaces") /\ "post" \in ops
MatchAttach(p_l, ops) ==
    /\ Contains(p_l, "workspaces") /\ Contains(p_l, "documents")
    /\ (Contains(p_l, "attach") \/ Contains(p_l, "add")) /\ "post" \in ops
MatchEmbed(p_l, ops) ==
    /\ Contains(p_l, "workspaces") /\ Contains(p_l, "documents")
    /\ (Contains(p_l, "embed") \/ Contains(p_l, "re-embed")) /\ "post" \in ops
MatchListWithSources(p_l, ops) ==
    /\ Contains(p_l, "workspaces") /\ Contains(p_l, "documents")
    /\ "get" \in ops

MatchList(p_l, ops) ==
    /\ Contains(p_l, "workspaces") /\ Contains(p_l, "documents")
    /\ "get" \in ops /\ ~Contains(p_l, "sources")

\* one iteration of the loop: p, meta = item; ops = set(meta.keys())
ScanItem(paths, p, meta) ==
    LET p_l == Lower(p)
        ops == {meta.kv[i].k : i \in 1..Len(meta.kv)}
    IN  [upload_ws    |-> IF MatchUploadWs(p_l, ops) THEN p ELSE paths.upload_ws,
         upload_user  |-> IF MatchUploadUser(p_l, ops) THEN p ELSE paths.upload_user,
         attach       |-> IF MatchAttach(p_l, ops) THEN p ELSE paths.attach,
         embed        |-> IF MatchEmbed(p_l, ops) THEN p ELSE paths.embed,
         list_ws_docs |-> IF MatchList(p_l, ops) THEN p ELSE paths.list_ws_docs]

\* for p, meta in spec["paths"].items(): meta.keys() exists on a dict only
RECURSIVE Scan(_, _, _)
Scan(paths, items, i) ==
    IF i > Len(items) THEN Returned(paths)
    ELSE IF ~IsDict(items[i].v) THEN Raised("AttributeError")
    ELSE Scan(ScanItem(paths, items[i].k, items[i].v), items, i + 1)

\* the routes found in the description (None: no description was accepted)
Scanned(spec) ==
    IF ~Truthy(spec) THEN Returned(NoPaths)
    ELSE IF InRaises(spec) THEN Raised("TypeError")
    ELSE IF ~In("paths", spec) THEN Returned(NoPaths)
    ELSE IF ~IsDict(spec) THEN Raised("TypeError")
    ELSE IF ~IsDict(Item(spec, "paths")) THEN Raised("AttributeError")
    ELSE Scan(NoPaths, Item(spec, "paths").kv, 1)

\* paths[op] = paths[op] or <default>
OrDefault(found, default) == IF found = NONE \/ found = "" THEN default ELSE found

WithDefaultsButList(paths) ==
    [o \in Ops |-> IF o = "list_ws_docs" THEN paths[o] ELSE OrDefault(paths[o], Defaults[o])]

WithDefaults(paths) == [o \in Ops |-> OrDefault(paths[o], Defaults[o])]

discover_paths(spec) ==
    LET found == Scanned(spec)
    IN  IF found.exc # "none" THEN found ELSE Returned(WithDefaults(found.val))

\* the wiki ingestor's _discover_paths: the fixed table, no probing
wiki_discover_paths == Defaults

\* AnythingLLM._fmt
fmt(path) == Base \o Replace(Replace(path, "{workspace}", Ws), ":workspace", Ws)

(***************************************************************************)
(* AnythingLLM._try_upload: one pass of the loop over the field names.     *)
(***************************************************************************)
FieldNamesReordered == <<"files", "file", "documents", "document">>

FieldNames == <<"file", "files", "document", "documents">>

\* data = r.json() if Content-Type starts with application/json else None;
\* an exception of r.json() gives None
ParsedBody(r) ==
    IF StartsWith(r.ctype, "application/json") /\ r.parsable THEN r.json ELSE JNull

\* how one pass ends: "exc" and "status" and "no_ids" continue the loop,
\* "ids" returns them, "raise" is an exception of _extract_ids leaving the call
Attempt(r) ==
    IF r.kind = "exc" THEN [kind |-> "exc", ids |-> <<>>]
    ELSE IF ~Is2xx(r) THEN [kind |-> "status", ids |-> <<>>]
    ELSE LET ids == extract_ids(ParsedBody(r))
         IN  IF ids.exc # "none" THEN [kind |-> "raise", ids |-> <<>>]
             ELSE IF ids.val # <<>> THEN [kind |-> "ids", ids |-> ids.val]
             ELSE [kind |-> "no_ids", ids |-> <<>>]

(***************************************************************************)
(* AnythingLLM.upload_to_workspace_or_user: the URL of each rung.          *)
(***************************************************************************)
LegacyRoutesAndOneMore == <<"/api/workspaces/" \o Ws \o "/documents/upload",
                            "/api/workspace/" \o Ws \o "/upload",
                            "/api/workspace/" \o Ws \o "/documents">>

\* the legacy fallbacks, tried after the two routes of the table
LegacyRoutes == <<"/api/workspaces/" \o Ws \o "/documents/upload",
                  "/api/workspace/" \o Ws \o "/upload">>

Rungs == 2 + Len(LegacyRoutes)

RungUrlLegacySwapped(table, r) ==
    CASE r = 1 -> fmt(table.upload_ws)
      [] r = 2 -> Base \o table.upload_user
      [] OTHER -> Base \o LegacyRoutes[Rungs + 1 - r]

RungUrl(table, r) ==
    CASE r = 1 -> fmt(table.upload_ws)
      [] r = 2 -> Base \o table.upload_user
      [] OTHER -> Base \o LegacyRoutes[r - 2]

(***************************************************************************)
(* AnythingLLM.list_workspace_docs on a response.                          *)
(***************************************************************************)
list_workspace_docs_zero(r) ==
    IF ~Is2xx(r) THEN -1
    ELSE IF ~r.parsable THEN -1
    ELSE IF /\ IsDict(r.json) /\ HasKey(r.json, "documents")
            /\ IsList(Item(r.json, "documents"))
    THEN Len(Item(r.json, "documents").xs)
    ELSE IF IsList(r.json) THEN Len(r.json.xs)
    ELSE 0

list_workspace_docs(r) ==
    IF ~Is2xx(r) THEN -1
    ELSE IF ~r.parsable THEN -1
    ELSE IF /\ IsDict(r.json) /\ HasKey(r.json, "documents")
            /\ IsList(Item(r.json, "documents"))
    THEN Len(Item(r.json, "documents").xs)
    ELSE IF IsList(r.json) THEN Len(r.json.xs)
    ELSE -1

(***************************************************************************)
(* What the server may answer.                                             *)
(***************************************************************************)
Methods(ms) == JDict([n \in 1..Len(ms) |-> KV(ms[n], JDict(<<>>))])

Descriptions ==
    {\* every operation described, a `sources` route after the list route
     JDict(<<KV("openapi", JStr("3.0.0")),
             KV("paths", JDict(<<
                KV("/api/v1/workspaces/{workspace}/documents/upload", Methods(<<"post">>)),
                KV("/api/v1/documents/upload", Methods(<<"post">>)),
                KV("/api/v1/workspaces/{workspace}/documents/attach", Methods(<<"post">>)),
                KV("/api/v1/workspaces/{workspace}/documents/re-embed", Methods(<<"post">>)),
                KV("/api/v1/workspaces/{workspace}/documents", Methods(<<"get", "post">>)),
                KV("/api/v1/workspaces/{workspace}/documents/sources", Methods(<<"get">>))>>))>>),
     \* some operations only, other spellings of the placeholder and of case
     JDict(<<KV("paths", JDict(<<
                KV("/v1/Workspaces/:workspace/Documents/add", Methods(<<"post">>)),
                KV("/v1/documents/:workspace/upload", Methods(<<"post">>)),
                KV("/v1/workspaces/{workspace}/upload", Methods(<<"get">>)),
                KV("/v1/system/health", Methods(<<"get">>))>>))>>),
     \* no operation described
     JDict(<<KV("openapi", JStr("3.0.0"))>>),
     JDict(<<>>),
     JNull,
     \* malformed for the scan
     JDict(<<KV("paths", JList(<<JStr("/api/v1/documents/upload")>>))>>),
     JDict(<<KV("paths", JDict(<<KV("/api/v1/documents/upload", JStr("post"))>>))>>),
     JList(<<JStr("paths")>>),
     JStr("no paths here"),
     JNum(1)}

ProbeResponses == Responses(Statuses, ContentTypes, Descriptions)

\* BulkLen documents in one upload response
Bulk == JList([n \in 1..BulkLen |-> JDict(<<KV("id", JNum(n))>>)])

UploadBodies ==
    {JNull,
     JDict(<<KV("foo", JStr("bar"))>>),
     JDict(<<KV("success", JBool(TRUE)), KV("documents", JList(<<>>))>>),
     JDict(<<KV("id", JNum(42))>>),
     JDict(<<KV("documents", JList(<<JDict(<<KV("id", JStr("a"))>>),
                                     JDict(<<KV("id", JStr("b"))>>)>>))>>),
     JDict(<<KV("ids", JList(<<JStr("a")>>))>>),
     Bulk}

UploadResponses == Responses({200, 404}, ContentTypes, UploadBodies)

\* attach and embed read the status only
StatusResponses == Responses(Statuses, {"text/html"}, {})

ListBodies ==
    {JDict(<<KV("documents", JList(<<JDict(<<>>), JDict(<<>>)>>))>>),
     JDict(<<KV("documents", JList(<<>>))>>),
     JDict(<<KV("not_documents", JList(<<>>))>>),
     JDict(<<KV("documents", JDict(<<KV("a", JNull)>>))>>),
     JList(<<JStr("a"), JStr("b"), JStr("c")>>),
     JList(<<>>),
     JNum(5),
     JNull}

\* list_workspace_docs does not read the Content-Type
ListResponses == Responses({200, 404}, {"text/html"}, ListBodies)

(***************************************************************************)
(* The run of push_to_anythingllm, one action per HTTP exchange.           *)
(***************************************************************************)
CHUNK == 200

NoSpec == [got |-> FALSE, json |-> JNull]
NoLast == [kind |-> "none", ids |-> <<>>]
NoRet == [done |-> FALSE, ids |-> <<>>]

\* the settings of a deployment: both systems' URL and credential
ValidCfg(prog) ==
    [prog |-> prog, base |-> Base, key |-> "secret",
     src_url |-> "http://source", src_token |-> "token"]

\* no GET of _fetch_openapi is being looked at
NoResp == [kind |-> "none"]

\* the source-system reader is not running
SrcIdle == [pc |-> "idle", since |-> NONE, offset |-> 0, total |-> 0,
            served |-> <<>>, yielded |-> <<>>, requests |-> 0, parity |-> 0]

XIdle == xin = JNull /\ xout = [exc |-> "idle", val |-> <<>>] /\ xwiki = xout

\* the run of push_to_anythingllm does not start
PIdle ==
    /\ pc = "idle" /\ probe = 1 /\ probed = <<>> /\ openapi = NoSpec /\ self_paths = NoPaths
    /\ nfiles = 0 /\ file = 1 /\ rung = 1 /\ field = 1 /\ attempts = <<>>
    /\ last = NoLast /\ up_ret = NoRet /\ uploaded_ids = <<>> /\ offset = 0
    /\ attach_calls = <<>> /\ attached_total = 0 /\ embed_calls = <<>>
    /\ list_calls = <<>> /\ n_docs = -2 /\ ret = -2 /\ exc = "none"
    /\ cfg = ValidCfg("none") /\ probe_resp = NoResp

Init ==
    /\ pc = "probe"
    /\ probe = 1
    /\ probed = <<>>
    /\ openapi = NoSpec
    /\ self_paths = NoPaths
    /\ nfiles \in 1..MaxFiles
    /\ file = 1
    /\ rung = 1
    /\ field = 1
    /\ attempts = <<>>
    /\ last = NoLast
    /\ up_ret = NoRet
    /\ uploaded_ids = <<>>
    /\ offset = 0
    /\ attach_calls = <<>>
    /\ attached_total = 0
    /\ embed_calls = <<>>
    /\ list_calls = <<>>
    /\ n_docs = -2
    /\ ret = -2
    /\ exc = "none"
    /\ cfg = ValidCfg("redmine")
    /\ probe_resp = NoResp
    /\ XIdle
    /\ src = SrcIdle

\* an exception leaves push_to_anythingllm from the call named where
Raise(where) == pc' = "raised" /\ exc' = where

\* the constructor ends: self.paths = self._discover_paths()
Discovered(description) ==
    LET table == discover_paths(description.json)
    IN  /\ openapi' = description
        /\ IF table.exc # "none"
           THEN Raise("discover_paths") /\ UNCHANGED self_paths
           ELSE /\ self_paths' = table.val
                /\ pc' = "upload"
                /\ UNCHANGED exc

\* AnythingLLM.__init__ -> _discover_paths -> _fetch_openapi: one GET
Probe ==
    /\ pc = "probe"
    /\ probed' = Append(probed, Base \o ProbePaths[probe])
    /\ \E r \in ProbeResponses :
        /\ probe_resp' = r
        /\ IF ProbeAccepts(r)
           THEN Discovered([got |-> TRUE, json |-> r.json]) /\ UNCHANGED probe
           ELSE IF probe < Len(ProbePaths)
           THEN probe' = probe + 1 /\ UNCHANGED <<pc, openapi, self_paths, exc>>
           ELSE Discovered(NoSpec) /\ UNCHANGED probe
    /\ UNCHANGED <<nfiles, file, rung, field, attempts, last, up_ret, uploaded_ids,
                   offset, attach_calls, attached_total, embed_calls, list_calls,
                   n_docs, ret, xvars, cfg, src>>

\* upload_to_workspace_or_user returned ids for the current file:
\* uploaded_ids.extend(ids) if ids, then the next file or the attach loop
FileDone(ids) ==
    /\ up_ret' = [done |-> TRUE, ids |-> ids]
    /\ uploaded_ids' = uploaded_ids \o ids
    /\ file' = file + 1
    /\ rung' = 1
    /\ field' = 1
    /\ pc' = IF file < nfiles THEN "upload"
             ELSE IF Len(uploaded_ids \o ids) > 0 THEN "attach" ELSE "embed"
    /\ UNCHANGED exc

\* how a pass ends on each answer of the server to an upload
Attempts == [r \in UploadResponses |-> Attempt(r)]

TryNextLeavingRoute ==
    IF rung < Rungs
    THEN /\ rung' = rung + 1
         /\ field' = 1
         /\ up_ret' = NoRet
         /\ UNCHANGED <<pc, exc, uploaded_ids, file>>
    ELSE FileDone(<<>>)

\* the pass yielded no identifier (`continue`): the next field name; after
\* the last one _try_upload returns [] and the next route is tried; after
\* the last route upload_to_workspace_or_user returns []
TryNext ==
    IF field < Len(FieldNames)
    THEN /\ field' = field + 1
         /\ up_ret' = NoRet
         /\ UNCHANGED <<pc, exc, uploaded_ids, file, rung>>
    ELSE IF rung < Rungs
    THEN /\ rung' = rung + 1
         /\ field' = 1
         /\ up_ret' = NoRet
         /\ UNCHANGED <<pc, exc, uploaded_ids, file>>
    ELSE FileDone(<<>>)

\* one POST of _try_upload and all that follows it up to the next request
Upload ==
    /\ pc = "upload"
    /\ \E r \in UploadResponses :
        LET a == Attempts[r]
            log == IF rung = 1 /\ field = 1 THEN <<>> ELSE attempts
        IN  /\ attempts' = Append(log, [url |-> RungUrl(self_paths, rung),
                                        key |-> FieldNames[field],
                                        ok |-> a.kind = "ids"])
            /\ last' = a
            /\ CASE a.kind = "raise" ->
                      /\ Raise("extract_ids")
                      /\ up_ret' = NoRet
                      /\ UNCHANGED <<uploaded_ids, file, rung, field>>
                 [] a.kind = "ids" -> FileDone(a.ids)
                 [] OTHER -> TryNext
    /\ probe_resp' = NoResp
    /\ UNCHANGED <<probe, probed, openapi, self_paths, nfiles, offset, attach_calls,
                   attached_total, embed_calls, list_calls, n_docs, ret, xvars, cfg, src>>

\* the upload loop is over: its record of the last file is dropped
UploadLocalsDead == attempts' = <<>> /\ last' = NoLast /\ up_ret' = NoRet

\* uploaded_ids[offset:offset+CHUNK]
Chunk(ids, from) ==
    SubSeq(ids, from + 1, IF from + CHUNK < Len(ids) THEN from + CHUNK ELSE Len(ids))

\* one pass of the attach loop: client.attach_to_workspace(chunk)
Attach ==
    /\ pc = "attach"
    /\ \E r \in StatusResponses :
        LET chunk == Chunk(uploaded_ids, offset)
            call(res) == [url |-> fmt(self_paths.attach), from |-> offset,
                          ids |-> chunk, res |-> res]
        IN  IF r.kind = "exc"
            THEN /\ attach_calls' = Append(attach_calls, call("exc"))
                 /\ Raise("attach_to_workspace")
                 /\ UNCHANGED <<offset, attached_total>>
            ELSE /\ attach_calls' =
                        Append(attach_calls, call(IF Is2xx(r) THEN "ok" ELSE "fail"))
                 /\ attached_total' =
                        IF Is2xx(r) THEN attached_total + Len(chunk) ELSE attached_total
                 /\ offset' = offset + CHUNK
                 /\ pc' = IF offset + CHUNK < Len(uploaded_ids) THEN "attach" ELSE "embed"
                 /\ UNCHANGED exc
    /\ UploadLocalsDead
    /\ UNCHANGED <<probe, probed, openapi, self_paths, nfiles, file, rung, field,
                   uploaded_ids, embed_calls, list_calls, n_docs, ret, xvars,
                   cfg, probe_resp, src>>

EmbedStoringFallback ==
    /\ pc = "embed"
    /\ \E r \in StatusResponses :
        IF r.kind = "exc"
        THEN /\ embed_calls' = Append(embed_calls, [url |-> fmt(self_paths.embed), res |-> "exc"])
             /\ Raise("embed_workspace")
             /\ UNCHANGED self_paths
        ELSE /\ embed_calls' =
                    Append(embed_calls, [url |-> fmt(self_paths.embed),
                                         res |-> IF Is2xx(r) THEN "ok" ELSE "fail"])
             /\ self_paths' =
                    IF Is2xx(r) THEN self_paths
                    ELSE [self_paths EXCEPT
                            !.embed = "/api/v1/workspaces/{workspace}/update-embeddings"]
             /\ pc' = "list"
             /\ UNCHANGED exc
    /\ UploadLocalsDead
    /\ UNCHANGED <<probe, probed, openapi, nfiles, file, rung, field,
                   uploaded_ids, offset, attach_calls, attached_total,
                   list_calls, n_docs, ret, xvars, cfg, probe_resp, src>>

\* client.embed_workspace()
Embed ==
    /\ pc = "embed"
    /\ \E r \in StatusResponses :
        IF r.kind = "exc"
        THEN /\ embed_calls' = Append(embed_calls, [url |-> fmt(self_paths.embed), res |-> "exc"])
             /\ Raise("embed_workspace")
        ELSE /\ embed_calls' =
                    Append(embed_calls, [url |-> fmt(self_paths.embed),
                                         res |-> IF Is2xx(r) THEN "ok" ELSE "fail"])
             /\ pc' = "list"
             /\ UNCHANGED exc
    /\ UploadLocalsDead
    /\ UNCHANGED <<probe, probed, openapi, self_paths, nfiles, file, rung, field,
                   uploaded_ids, offset, attach_calls, attached_total,
                   list_calls, n_docs, ret, xvars, cfg, probe_resp, src>>

\* n_docs = client.list_workspace_docs(); return attached_total
List ==
    /\ pc = "list"
    /\ \E r \in ListResponses :
        /\ list_calls' = Append(list_calls, [url |-> fmt(self_paths.list_ws_docs),
                                              resp |-> r])
        /\ IF r.kind = "exc"
           THEN Raise("list_workspace_docs") /\ UNCHANGED <<n_docs, ret>>
           ELSE /\ n_docs' = list_workspace_docs(r)
                /\ ret' = attached_total
                /\ pc' = "done"
                /\ UNCHANGED exc
    /\ UNCHANGED <<probe, probed, openapi, self_paths, nfiles, file, rung, field, attempts,
                   last, up_ret, uploaded_ids, offset, attach_calls, attached_total,
                   embed_calls, xvars, cfg, probe_resp, src>>

Next == Probe \/ Upload \/ Attach \/ Embed \/ List

Spec == Init /\ [][Next]_vars

(***************************************************************************)
(* The wiki ingestor's push_to_anythingllm: the constructor sends nothing  *)
(* (its _discover_paths is the fixed table), the uploads, one attach       *)
(* request for the whole identifier list, embed; no list request.          *)
(***************************************************************************)
WikiUploadBodies ==
    {JNull,
     JDict(<<KV("foo", JStr("bar"))>>),
     JDict(<<KV("id", JNum(42))>>),
     JDict(<<KV("documents", JList(<<JDict(<<KV("id", JStr("a"))>>),
                                     JDict(<<KV("id", JStr("b"))>>)>>))>>),
     JDict(<<KV("result", JDict(<<KV("document_id", JStr("x"))>>))>>),
     JDict(<<KV("ids", JList(<<JStr("a")>>))>>),
     JDict(<<KV("ids", Bulk)>>)}

WikiUploadResponses == Responses({200, 404}, ContentTypes, WikiUploadBodies)

\* one pass of the wiki ingestor's _try_upload
WikiAttempt(r) ==
    IF r.kind = "exc" THEN [kind |-> "exc", ids |-> <<>>]
    ELSE IF ~Is2xx(r) THEN [kind |-> "status", ids |-> <<>>]
    ELSE LET ids == wiki_extract_ids(ParsedBody(r))
         IN  IF ids.exc # "none" THEN [kind |-> "raise", ids |-> <<>>]
             ELSE IF ids.val # <<>> THEN [kind |-> "ids", ids |-> ids.val]
             ELSE [kind |-> "no_ids", ids |-> <<>>]

WikiAttempts == [r \in WikiUploadResponses |-> WikiAttempt(r)]

WikiInit ==
    /\ pc = "wiki_upload"
    /\ probe = 1
    /\ probed = <<>>
    /\ openapi = NoSpec
    /\ self_paths = wiki_discover_paths
    /\ nfiles \in 1..MaxFiles
    /\ file = 1
    /\ rung = 1
    /\ field = 1
    /\ attempts = <<>>
    /\ last = NoLast
    /\ up_ret = NoRet
    /\ uploaded_ids = <<>>
    /\ offset = 0
    /\ attach_calls = <<>>
    /\ attached_total = 0
    /\ embed_calls = <<>>
    /\ list_calls = <<>>
    /\ n_docs = -2
    /\ ret = -2
    /\ exc = "none"
    /\ cfg = ValidCfg("wiki")
    /\ probe_resp = NoResp
    /\ XIdle
    /\ src = SrcIdle

\* upload_to_workspace_or_user returned ids for the current file; after the
\* last file: `if not uploaded_ids: return 0`, else the attach request
WikiFileDone(ids) ==
    /\ up_ret' = [done |-> TRUE, ids |-> ids]
    /\ uploaded_ids' = uploaded_ids \o ids
    /\ file' = file + 1
    /\ rung' = 1
    /\ field' = 1
    /\ pc' = IF file < nfiles THEN "wiki_upload"
             ELSE IF Len(uploaded_ids \o ids) > 0 THEN "wiki_attach" ELSE "done"
    /\ ret' = IF file = nfiles /\ Len(uploaded_ids \o ids) = 0 THEN 0 ELSE ret
    /\ UNCHANGED exc

WikiTryNext ==
    IF field < Len(FieldNames)
    THEN /\ field' = field + 1
         /\ up_ret' = NoRet
         /\ UNCHANGED <<pc, exc, uploaded_ids, file, rung, ret>>
    ELSE IF rung < Rungs
    THEN /\ rung' = rung + 1
         /\ field' = 1
         /\ up_ret' = NoRet
         /\ UNCHANGED <<pc, exc, uploaded_ids, file, ret>>
    ELSE WikiFileDone(<<>>)

\* one POST of the wiki ingestor's _try_upload
WikiUpload ==
    /\ pc = "wiki_upload"
    /\ \E r \in WikiUploadResponses :
        LET a == WikiAttempts[r]
            log == IF rung = 1 /\ field = 1 THEN <<>> ELSE attempts
        IN  /\ attempts' = Append(log, [url |-> RungUrl(self_paths, rung),
                                        key |-> FieldNames[field],
                                        ok |-> a.kind = "ids"])
            /\ last' = a
            /\ CASE a.kind = "raise" ->
                      /\ Raise("extract_ids")
                      /\ up_ret' = NoRet
                      /\ UNCHANGED <<uploaded_ids, file, rung, field, ret>>
                 [] a.kind = "ids" -> WikiFileDone(a.ids)
                 [] OTHER -> WikiTryNext
    /\ UNCHANGED <<probe, probed, openapi, self_paths, nfiles, offset, attach_calls,
                   attached_total, embed_calls, list_calls, n_docs, xvars, cfg,
                   probe_resp, src>>

\* client.attach_documents_to_workspace(uploaded_ids): one request
WikiAttach ==
    /\ pc = "wiki_attach"
    /\ \E r \in StatusResponses :
        LET call(res) == [url |-> fmt(self_paths.attach), from |-> 0,
                          ids |-> uploaded_ids, res |-> res]
        IN  IF r.kind = "exc"
            THEN /\ attach_calls' = Append(attach_calls, call("exc"))
                 /\ Raise("attach_documents_to_workspace")
            ELSE /\ attach_calls' =
                        Append(attach_calls, call(IF Is2xx(r) THEN "ok" ELSE "fail"))
                 /\ pc' = "wiki_embed"
                 /\ UNCHANGED exc
    /\ UploadLocalsDead
    /\ UNCHANGED <<probe, probed, openapi, self_paths, nfiles, file, rung, field,
                   uploaded_ids, offset, attached_total, embed_calls, list_calls,
                   n_docs, ret, xvars, cfg, probe_resp, src>>

\* client.embed_documents(uploaded_ids); return len(uploaded_ids)
WikiEmbed ==
    /\ pc = "wiki_embed"
    /\ \E r \in StatusResponses :
        IF r.kind = "exc"
        THEN /\ embed_calls' = Append(embed_calls, [url |-> fmt(self_paths.embed), res |-> "exc"])
             /\ Raise("embed_documents")
             /\ UNCHANGED ret
        ELSE /\ embed_calls' =
                    Append(embed_calls, [url |-> fmt(self_paths.embed),
                                         res |-> IF Is2xx(r) THEN "ok" ELSE "fail"])
             /\ pc' = "done"
             /\ ret' = Len(uploaded_ids)
             /\ UNCHANGED exc
    /\ UploadLocalsDead
    /\ UNCHANGED <<probe, probed, openapi, self_paths, nfiles, file, rung, field,
                   uploaded_ids, offset, attach_calls, attached_total,
                   list_calls, n_docs, xvars, cfg, probe_resp, src>>

WikiNext == WikiUpload \/ WikiAttach \/ WikiEmbed

SpecWiki == WikiInit /\ [][WikiNext]_vars

(***************************************************************************)
(* The scripts from their entry: the validation of the configuration, the  *)
(* export from the source system, the construction of the client, then the *)
(* push. The issue-tracker script is entered at main() or, imported, at    *)
(* push_to_anythingllm(); the wiki script validates when it is loaded.     *)
(***************************************************************************)
Configs ==
    {[prog |-> p, base |-> b, key |-> k, src_url |-> u, src_token |-> t] :
        p \in {"redmine", "wiki"}, b \in {"", Base}, k \in {"", "secret"},
        u \in {"", "http://source"}, t \in {"", "token"}}

\* push_to_anythingllm() entered directly reads the document store's settings
\* only: the source system's are left at their deployment values
DirectConfigs ==
    {c \in Configs : /\ c.prog = "redmine"
                     /\ c.src_url = ValidCfg("redmine").src_url
                     /\ c.src_token = ValidCfg("redmine").src_token}

MainInit ==
    /\ cfg \in Configs
    /\ pc \in (IF cfg.prog = "wiki" THEN {"import"}
               ELSE IF cfg \in DirectConfigs THEN {"main", "construct"}
               ELSE {"main"})
    /\ nfiles \in (IF pc = "construct" THEN 1..MaxFiles ELSE {0})
    /\ probe = 1
    /\ probed = <<>>
    /\ openapi = NoSpec
    /\ self_paths = NoPaths
    /\ file = 1
    /\ rung = 1
    /\ field = 1
    /\ attempts = <<>>
    /\ last = NoLast
    /\ up_ret = NoRet
    /\ uploaded_ids = <<>>
    /\ offset = 0
    /\ attach_calls = <<>>
    /\ attached_total = 0
    /\ embed_calls = <<>>
    /\ list_calls = <<>>
    /\ n_docs = -2
    /\ ret = -2
    /\ exc = "none"
    /\ probe_resp = NoResp
    /\ XIdle
    /\ src = SrcIdle

\* raise SystemExit / RuntimeError: the process ends
Exit(where) == pc' = "exit" /\ exc' = where

\* main() of the issue-tracker script: the two checks of the configuration
MainValidate ==
    /\ pc = "main"
    /\ IF cfg.src_url = "" \/ cfg.src_token = "" THEN Exit("main")
       ELSE IF cfg.base = "" \/ cfg.key = "" THEN Exit("main")
       ELSE pc' = "export" /\ UNCHANGED exc
    /\ UNCHANGED <<probe, probed, openapi, self_paths, nfiles, file, rung, field,
                   attempts, last, up_ret, uploaded_ids, offset, attach_calls,
                   attached_total, embed_calls, list_calls, n_docs, ret, cfg,
                   probe_resp, xvars, src>>

\* the wiki script's module-level validation
WikiImport ==
    /\ pc = "import"
    /\ IF cfg.src_url = "" THEN Exit("import")
       ELSE IF cfg.src_token = "" THEN Exit("import")
       ELSE IF cfg.base = "" \/ cfg.key = "" THEN Exit("import")
       ELSE pc' = "wiki_main" /\ UNCHANGED exc
    /\ UNCHANGED <<probe, probed, openapi, self_paths, nfiles, file, rung, field,
                   attempts, last, up_ret, uploaded_ids, offset, attach_calls,
                   attached_total, embed_calls, list_calls, n_docs, ret, cfg,
                   probe_resp, xvars, src>>

\* main() of the wiki script: missing settings are logged and it returns
WikiMain ==
    /\ pc = "wiki_main"
    /\ pc' = IF cfg.src_url = "" \/ cfg.src_token = "" THEN "returned"
             ELSE IF cfg.base = "" \/ cfg.key = "" THEN "returned"
             ELSE "export"
    /\ UNCHANGED <<probe, probed, openapi, self_paths, nfiles, file, rung, field,
                   attempts, last, up_ret, uploaded_ids, offset, attach_calls,
                   attached_total, embed_calls, list_calls, n_docs, ret, exc, cfg,
                   probe_resp, xvars, src>>

\* export_redmine() / export_wikijs(): requests to the source system, then
\* the number of files written; main returns when it is 0; an exception of
\* the reader is not caught
Export ==
    /\ pc = "export"
    /\ src' = [src EXCEPT !.requests = 1]
    /\ \/ Raise("export") /\ UNCHANGED nfiles
       \/ \E total \in 0..MaxFiles :
            /\ nfiles' = total
            /\ pc' = IF total = 0 THEN "returned" ELSE "construct"
            /\ UNCHANGED exc
    /\ UNCHANGED <<probe, probed, openapi, self_paths, file, rung, field,
                   attempts, last, up_ret, uploaded_ids, offset, attach_calls,
                   attached_total, embed_calls, list_calls, n_docs, ret, cfg,
                   probe_resp, xvars>>

ConstructUnchecked ==
    /\ pc = "construct"
    /\ pc' = IF cfg.prog = "wiki" THEN "wiki_upload" ELSE "probe"
    /\ self_paths' = IF cfg.prog = "wiki" THEN wiki_discover_paths ELSE self_paths
    /\ UNCHANGED <<probe, probed, openapi, nfiles, file, rung, field,
                   attempts, last, up_ret, uploaded_ids, offset, attach_calls,
                   attached_total, embed_calls, list_calls, n_docs, ret, exc, cfg,
                   probe_resp, xvars, src>>

\* AnythingLLM.__init__ up to self.paths = self._discover_paths(): the check
\* of base_url and api_key; the wiki client's table needs no request
Construct ==
    /\ pc = "construct"
    /\ IF cfg.base = "" \/ cfg.key = ""
       THEN Exit("AnythingLLM.__init__") /\ UNCHANGED self_paths
       ELSE /\ pc' = IF cfg.prog = "wiki" THEN "wiki_upload" ELSE "probe"
            /\ self_paths' = IF cfg.prog = "wiki" THEN wiki_discover_paths ELSE self_paths
            /\ UNCHANGED exc
    /\ UNCHANGED <<probe, probed, openapi, nfiles, file, rung, field,
                   attempts, last, up_ret, uploaded_ids, offset, attach_calls,
                   attached_total, embed_calls, list_calls, n_docs, ret, cfg,
                   probe_resp, xvars, src>>

MainNext ==
    \/ MainValidate \/ WikiImport \/ WikiMain \/ Export \/ Construct
    \/ Next \/ WikiNext

SpecMain == MainInit /\ [][MainNext]_vars

(***************************************************************************)
(* Redmine.iter_issues and _filter_issues: the pages of /issues.json.      *)
(***************************************************************************)
\* the characters of a timestamp in ASCII order, for str >= str
Ascii == <<"+", "-", ".", "0", "1", "2", "3", "4", "5", "6", "7", "8", "9",
           ":", "T", "Z">>

Rank(c) == CHOOSE i \in 1..Len(Ascii) : Ascii[i] = c

\* a <= b on str
RECURSIVE StrLE(_, _)
StrLE(a, b) ==
    IF Len(a) = 0 THEN TRUE
    ELSE IF Len(b) = 0 THEN FALSE
    ELSE IF Head(a) = Head(b) THEN StrLE(Tail(a), Tail(b))
    ELSE Rank(Head(a)) < Rank(Head(b))

OpenStatuses == {"new", "open", "in progress", "feedback", "assigned"}

\* it.get("status", {}).get("name", "").lower()
StatusOf(it) == Lower(DictGet(DictGet(it, "status", JDict(<<>>)), "name", JStr("")).s)

\* it.get("updated_on") or it.get("created_on")
UpdatedOf(it) ==
    LET updated == DictGet(it, "updated_on", JNull)
    IN  IF Truthy(updated) THEN updated ELSE DictGet(it, "created_on", JNull)

\* `if updated and updated >= since_iso`
Recent(it, since_iso) ==
    LET updated == UpdatedOf(it)
    IN  Truthy(updated) /\ StrLE(since_iso, updated.s)

RECURSIVE filter_issues_since_unfiltered(_, _)
filter_issues_since_unfiltered(issues, since_iso) ==
    IF issues = <<>> THEN <<>>
    ELSE LET it == Head(issues)
             rest == filter_issues_since_unfiltered(Tail(issues), since_iso)
         IN  IF since_iso = NONE
             THEN (IF StatusOf(it) \in OpenStatuses THEN rest ELSE <<it>> \o rest)
             ELSE IF Recent(it, since_iso) THEN <<it>> \o rest
             ELSE rest

\* Redmine._filter_issues: the issues it yields, in order
RECURSIVE filter_issues(_, _)
filter_issues(issues, since_iso) ==
    IF issues = <<>> THEN <<>>
    ELSE LET it == Head(issues)
             rest == filter_issues(Tail(issues), since_iso)
         IN  IF since_iso = NONE
             THEN (IF StatusOf(it) \in OpenStatuses THEN rest ELSE <<it>> \o rest)
             ELSE IF Recent(it, since_iso)
             THEN (IF StatusOf(it) \in OpenStatuses THEN rest ELSE <<it>> \o rest)
             ELSE rest

\* since.isoformat() for since_days > 0
SinceIso == "2022-06-01T00:00:00.000000+00:00"

Issue(id, fields) == JDict(<<KV("id", JNum(id))>> \o fields)
Status(name) == KV("status", JDict(<<KV("id", JNum(1)), KV("name", JStr(name))>>))
UpdatedOn(ts) == KV("updated_on", JStr(ts))
CreatedOn(ts) == KV("created_on", JStr(ts))

\* the issues the tracker may serve
Issues ==
    {Issue(1, <<Status("New"), UpdatedOn("2024-05-01T10:00:00Z"), CreatedOn("2024-04-01T10:00:00Z")>>),
     Issue(2, <<Status("In Progress"), UpdatedOn("2020-01-01T00:00:00Z")>>),
     Issue(3, <<Status("open")>>),
     Issue(4, <<Status("FEEDBACK"), CreatedOn("2023-01-01T00:00:00Z")>>),
     Issue(5, <<Status("Assigned"), UpdatedOn("2022-06-01T00:00:00Z")>>),
     Issue(6, <<Status("Closed"), UpdatedOn("2024-05-01T10:00:00Z"), CreatedOn("2019-01-01T00:00:00Z")>>),
     Issue(7, <<Status("Closed"), UpdatedOn("2020-01-01T00:00:00Z"), CreatedOn("2019-01-01T00:00:00Z")>>),
     Issue(8, <<Status("Resolved"), KV("updated_on", JNull), CreatedOn("2023-01-01T00:00:00Z")>>),
     Issue(9, <<Status("Rejected")>>),
     Issue(10, <<UpdatedOn("2022-06-01T00:00:00Z")>>)}

\* the sequences over S of length at most n
SeqsUpTo(S, n) == UNION {[1..m -> S] : m \in 0..n}

\* the answers to GET /issues.json: ensure_ok raises on an error status, else
\* the payload's total_count and issues
Pages ==
    {[ok |-> FALSE, total |-> 0, issues |-> <<>>]}
    \cup {[ok |-> TRUE, total |-> t, issues |-> xs] :
            t \in 0..MaxTotal, xs \in SeqsUpTo(Issues, MaxPage)}

IssuesInit ==
    /\ src \in {[pc |-> "first", since |-> since_iso, offset |-> 0, total |-> 0,
                 served |-> <<>>, yielded |-> <<>>, requests |-> 0, parity |-> 0] :
                    since_iso \in {NONE, SinceIso}}
    /\ PIdle
    /\ XIdle

\* one GET and the `yield from` of its page
Fetched(page, total) ==
    IF ~page.ok THEN [src EXCEPT !.pc = "raised",
                                 !.requests = Min({src.requests + 1, MaxRequests}),
                                 !.parity = 1 - src.parity]
    ELSE [src EXCEPT
            !.pc = IF src.offset + Len(page.issues) < total THEN "loop" ELSE "end",
            !.total = total,
            !.offset = src.offset + Len(page.issues),
            !.served = src.served \o page.issues,
            !.yielded = src.yielded \o filter_issues(page.issues, src.since),
            !.requests = Min({src.requests + 1, MaxRequests}),
            !.parity = 1 - src.parity]

\* the first page: total = payload.get("total_count", 0)
FirstPage ==
    /\ src.pc = "first"
    /\ \E page \in Pages : src' = Fetched(page, page.total)
    /\ UNCHANGED <<pvars, xvars>>

\* a pass of `while offset < total`
NextPage ==
    /\ src.pc = "loop"
    /\ \E page \in Pages : src' = Fetched(page, src.total)
    /\ UNCHANGED <<pvars, xvars>>

IssuesNext == FirstPage \/ NextPage

SpecIssues == IssuesInit /\ [][IssuesNext]_vars

\* the generator is driven to exhaustion (export_redmine's `for it in
\* rm.iter_issues(...)`): while it has a request to send, it sends it
SpecIssuesLive == SpecIssues /\ WF_vars(IssuesNext)

(***************************************************************************)
(* Bounded JSON inputs of the extractor harness.                           *)
(***************************************************************************)
Keys == <<"ids", "document_ids", "documents_ids", "id", "document_id",
          "documentId", "documents", "result", "data", "foo">>

Atoms == {JNull, JStr("a"), JNum(42)}

Elems == {JStr("a"), JDict(<<KV("id", JStr("b"))>>)}

Lists == {JList(xs) : xs \in SeqsUpTo(Elems, MaxLen)}

Nested == {JDict(<<KV("document_id", JStr("x"))>>),
           JDict(<<KV("documents", JList(<<JDict(<<KV("id", JNum(7))>>)>>))>>)}

Inner == Atoms \cup Lists \cup Nested

\* the indices of S in increasing order
RECURSIVE Sorted(_)
Sorted(S) == IF S = {} THEN <<>> ELSE <<Min(S)>> \o Sorted(S \ {Min(S)})

\* the dict holding key Keys[i] with value f[i], for every i of DOMAIN f
DictOf(f) ==
    LET idx == Sorted(DOMAIN f)
    IN  JDict([n \in 1..Len(idx) |-> KV(Keys[idx[n]], f[idx[n]])])

\* the choices of at most k keys
KeySets(k) == {S \in SUBSET (1..Len(Keys)) : Cardinality(S) <= k}

\* the mappings of at most k keys
Dicts(k) == {DictOf(f) : f \in UNION {[S -> Inner] : S \in KeySets(k)}}

\* the shapes named by the documentation and its tests, and edge cases
Examples ==
    {JDict(<<KV("documents", JList(<<JDict(<<KV("id", JStr("a"))>>),
                                     JDict(<<KV("id", JStr("b"))>>)>>))>>),
     JDict(<<KV("id", JNum(42))>>),
     JDict(<<KV("result", JDict(<<KV("document_id", JStr("x"))>>))>>),
     JDict(<<KV("foo", JStr("bar"))>>),
     JDict(<<KV("ids", JList(<<JNum(7)>>))>>),
     JDict(<<KV("ids", JList(<<JDict(<<KV("foo", JStr("bar"))>>)>>))>>),
     JDict(<<KV("data", JDict(<<KV("result", JDict(<<KV("id", JBool(TRUE))>>))>>))>>),
     JDict(<<KV("result", JDict(<<KV("ids", JList(<<JStr("a")>>))>>))>>),
     JDict(<<KV("documents", JList(<<JStr("a")>>)),
             KV("data", JList(<<JDict(<<KV("foo", JStr("bar"))>>), JNum(-3)>>))>>),
     JList(<<JDict(<<KV("id", JStr("a"))>>), JDict(<<KV("id", JStr("b"))>>)>>),
     JBool(FALSE), JNum(0), JStr("")}

ExtractInputs(k) == Inner \cup Dicts(k) \cup Examples

(***************************************************************************)
(* Harness: apply both extractors to one input.                            *)
(***************************************************************************)
Pending == [exc |-> "pending", val |-> <<>>]

XInit ==
    /\ xin \in ExtractInputs(MaxKeys) /\ xout = Pending /\ xwiki = Pending
    /\ PIdle /\ src = SrcIdle

ApplyExtract ==
    /\ xout = Pending
    /\ xout' = extract_ids(xin)
    /\ UNCHANGED <<xin, xwiki, pvars, src>>

ApplyWikiExtract ==
    /\ xwiki = Pending
    /\ xwiki' = wiki_extract_ids(xin)
    /\ UNCHANGED <<xin, xout, pvars, src>>

XNext == ApplyExtract \/ ApplyWikiExtract

SpecExtract == XInit /\ [][XNext]_vars

(***************************************************************************)
(* Properties.                                                             *)
(***************************************************************************)
RunOver == pc \in {"done", "raised"}

\* client = AnythingLLM(...) has returned
Constructed == pc \notin {"idle", "probe"} /\ exc # "discover_paths"

\* the upload loop is behind: the attach loop ran, or was left by an exception
AttachOver ==
    \/ pc \in {"embed", "list", "done"}
    \/ pc = "raised" /\ exc \in {"attach_to_workspace", "embed_workspace",
                                 "list_workspace_docs"}

\* ceil(n / CHUNK)
NBatches(n) == (n + CHUNK - 1) \div CHUNK

RECURSIVE SumOk(_, _)
SumOk(calls, n) ==
    IF n = 0 THEN 0
    ELSE SumOk(calls, n - 1) + (IF calls[n].res = "ok" THEN Len(calls[n].ids) ELSE 0)

RECURSIVE Concat(_, _)
Concat(calls, n) == IF n = 0 THEN <<>> ELSE Concat(calls, n - 1) \o calls[n].ids

\* C1: _extract_ids is total: on every JSON-like input it returns a sequence
\* of strings and raises nothing (both ingestors' extractors).
C1_ExtractorTotal ==
    /\ xout.exc \in {"idle", "pending", "none"}
    /\ xwiki.exc \in {"idle", "pending", "none"}

\* C2: for n accumulated identifiers exactly ceil(n/200) attach calls are
\* issued, over contiguous slices of at most 200 that cover the list in
\* order; a failed batch does not prevent a later one, and the attached total
\* is the sum of the sizes of the batches that returned 2xx.
C2_BatchIndependence ==
    AttachOver =>
        /\ Len(attach_calls) = NBatches(Len(uploaded_ids))
        /\ \A n \in 1..Len(attach_calls) :
            /\ attach_calls[n].from = (n - 1) * CHUNK
            /\ Len(attach_calls[n].ids) \in 1..CHUNK
        /\ Concat(attach_calls, Len(attach_calls)) = uploaded_ids
        /\ attached_total = SumOk(attach_calls, Len(attach_calls))
        /\ (pc = "done" => ret = attached_total)

\* C3: a transport failure in attach, embed or list is caught at the call
\* site: after one in an attach batch the other batches, embed and list are
\* still performed; after one in embed the list probe is still performed;
\* one in list ends the probe only.
C3_TransportFailureCaught ==
    RunOver =>
        /\ (\E n \in 1..Len(attach_calls) : attach_calls[n].res = "exc")
              => /\ Len(attach_calls) = NBatches(Len(uploaded_ids))
                 /\ Len(embed_calls) = 1
                 /\ Len(list_calls) = 1
        /\ (\E n \in 1..Len(embed_calls) : embed_calls[n].res = "exc")
              => Len(list_calls) = 1
        /\ (\E n \in 1..Len(list_calls) : list_calls[n].resp.kind = "exc")
              => pc = "done"

\* C4: a single file's failure never aborts the run: whatever the server
\* answers for one file, every remaining file is handed to
\* upload_to_workspace_or_user and the attach phase is reached.
C4_FileFailureNeverAborts ==
    (RunOver /\ Constructed) => (file > nfiles /\ exc # "extract_ids")

\* C5: route discovery never fails the construction of the client: for every
\* outcome of the description fetches _discover_paths raises nothing.
C5_DiscoveryNeverRaises == exc # "discover_paths"

\* C6: when every description fetch fails the route table equals the
\* hard-coded defaults, with all five operations resolved; and for any
\* description every operation the scan left unresolved takes its default.
C6_RouteFallback ==
    Constructed =>
        /\ DOMAIN self_paths = {"upload_ws", "upload_user", "attach", "embed",
                                "list_ws_docs"}
        /\ \A o \in DOMAIN self_paths : self_paths[o] \notin {NONE, ""}
        /\ ~openapi.got =>
              self_paths =
                [upload_ws    |-> "/api/v1/document/upload",
                 upload_user  |-> "/api/v1/document/upload",
                 attach       |-> "/api/v1/workspaces/{workspace}/documents/attach",
                 embed        |-> "/api/v1/workspaces/{workspace}/documents/embed",
                 list_ws_docs |-> "/api/v1/workspaces/{workspace}/documents"]
        /\ LET found == Scanned(openapi.json).val
           IN  \A o \in DOMAIN self_paths :
                  found[o] = NONE => self_paths[o] = Defaults[o]

C6_AllFetchesFailed ==
    /\ Constructed
    /\ ~openapi.got
    /\ Len(probed) = 3
    /\ self_paths = Defaults

\* C7: for one route _try_upload attempts the field names in the order file,
\* files, document, documents, stops at the first attempt that yields
\* identifiers, returns exactly those and issues no request under a later
\* field name.
RouteOf(n) == ((n - 1) \div 4) + 1

C7_FieldOrderShortCircuit ==
    /\ \A n \in 1..Len(attempts) :
          attempts[n].key = <<"file", "files", "document", "documents">>[((n - 1) % 4) + 1]
    /\ \A m, n \in 1..Len(attempts) :
          (m < n /\ RouteOf(m) = RouteOf(n)) => ~attempts[m].ok
    /\ (Len(attempts) > 0 /\ attempts[Len(attempts)].ok)
          => /\ last.kind = "ids" /\ last.ids # <<>>
             /\ up_ret = [done |-> TRUE, ids |-> last.ids]
    /\ last.kind = "ids" => attempts[Len(attempts)].ok

C7_ThirdFieldSucceeds ==
    /\ Len(attempts) = 3
    /\ <<attempts[1].key, attempts[2].key, attempts[3].key>> = <<"file", "files", "document">>
    /\ ~attempts[1].ok /\ ~attempts[2].ok /\ attempts[3].ok
    /\ up_ret.done /\ up_ret.ids = <<"a", "b">>

\* C8: upload_to_workspace_or_user tries the workspace-scoped route, the
\* user-library route, then the legacy routes /api/workspaces/<ws>/documents/
\* upload and /api/workspace/<ws>/upload; the first route yielding
\* identifiers wins and no later route is requested; the result is empty only
\* when all four routes yielded empty.
C8_RouteLadder ==
    /\ \A n \in 1..Len(attempts) :
          attempts[n].url =
              <<fmt(self_paths.upload_ws),
                Base \o self_paths.upload_user,
                Base \o "/api/workspaces/" \o Ws \o "/documents/upload",
                Base \o "/api/workspace/" \o Ws \o "/upload">>[RouteOf(n)]
    /\ \A m, n \in 1..Len(attempts) :
          (m < n /\ RouteOf(m) < RouteOf(n)) => ~attempts[m].ok
    /\ (up_ret.done /\ up_ret.ids = <<>>)
          => /\ Len(attempts) = 16
             /\ \A n \in 1..Len(attempts) : ~attempts[n].ok
    /\ (up_ret.done /\ up_ret.ids # <<>>) => attempts[Len(attempts)].ok

C8_ThirdRouteWins ==
    /\ up_ret.done /\ up_ret.ids # <<>>
    /\ RouteOf(Len(attempts)) = 3
    /\ attempts[Len(attempts)].ok
    /\ attempts[Len(attempts)].url = "http://anyl/api/workspaces/default/documents/upload"

\* C9: list_workspace_docs returns -1 on a non-2xx status, a non-JSON body or
\* a body that is neither a mapping with a `documents` sequence nor a bare
\* sequence, and otherwise the length of that sequence; the value the
\* pipeline returns does not depend on it.
C9_ListSentinel ==
    pc = "done" =>
        LET r == list_calls[1].resp
            docs == r.json.t = "dict" /\ HasKey(r.json, "documents")
                    /\ Item(r.json, "documents").t = "list"
        IN  /\ Len(list_calls) = 1
            /\ IF r.status \div 100 # 2 \/ ~r.parsable THEN n_docs = -1
               ELSE IF docs THEN n_docs = Len(Item(r.json, "documents").xs)
               ELSE IF r.json.t = "list" THEN n_docs = Len(r.json.xs)
               ELSE n_docs = -1
            /\ ret = SumOk(attach_calls, Len(attach_calls))

C9_UnrecognizedShape ==
    /\ pc = "done"
    /\ list_calls[1].resp.status = 200
    /\ list_calls[1].resp.parsable
    /\ list_calls[1].resp.json = JDict(<<KV("not_documents", JList(<<>>))>>)
    /\ n_docs = -1
    /\ ret > 0

\* C10: the issue-tracker extractor agrees with rules 1 to 8 applied in
\* order, first match wins.
RuleElem(x) == IF IsDict(x) /\ HasKey(x, "id") THEN PyStr(Item(x, "id")) ELSE PyStr(x)

RECURSIVE Rules(_)
Rules(body) ==
    LET holds(k) == IsDict(body) /\ HasKey(body, k)
        seq(k) == holds(k) /\ IsList(Item(body, k))
        each(xs) == [n \in 1..Len(xs) |-> RuleElem(xs[n])]
        docs == IF seq("documents") THEN DocIds(Item(body, "documents").xs, 1) ELSE <<>>
    IN  IF body.t = "null" THEN <<>>
        ELSE IF seq("ids") THEN each(Item(body, "ids").xs)
        ELSE IF seq("document_ids") THEN each(Item(body, "document_ids").xs)
        ELSE IF seq("documents_ids") THEN each(Item(body, "documents_ids").xs)
        ELSE IF holds("id") THEN <<PyStr(Item(body, "id"))>>
        ELSE IF holds("document_id") THEN <<PyStr(Item(body, "document_id"))>>
        ELSE IF holds("documentId") THEN <<PyStr(Item(body, "documentId"))>>
        ELSE IF docs # <<>> THEN docs
        ELSE IF holds("result") THEN Rules(Item(body, "result"))
        ELSE IF holds("data") THEN Rules(Item(body, "data"))
        ELSE IF IsList(body) THEN each(body.xs)
        ELSE <<>>

C10_AgreesWithRules ==
    xout.exc \notin {"idle", "pending"} => xout = Returned(Rules(xin))

\* C11: in both ingestors' extractors a mapping with none of the identifier
\* keys and no usable `documents` sequence, holding `result` (or, failing
\* that, `data`), yields the extraction of that key's value, and a bare
\* sequence of documents yields their identifiers.
IdKeys == {"ids", "document_ids", "documents_ids", "id", "document_id", "documentId"}

Wrapped(body) ==
    /\ IsDict(body)
    /\ \A k \in IdKeys : ~HasKey(body, k)
    /\ ~(/\ HasKey(body, "documents") /\ IsList(Item(body, "documents"))
         /\ DocIds(Item(body, "documents").xs, 1) # <<>>)
    /\ (HasKey(body, "result") \/ HasKey(body, "data"))

Unwrapped(body) ==
    IF HasKey(body, "result") THEN Item(body, "result") ELSE Item(body, "data")

C11_Unwrapping ==
    LET expected == IF Wrapped(xin) THEN Rules(Unwrapped(xin))
                    ELSE [n \in 1..Len(xin.xs) |-> RuleElem(xin.xs[n])]
    IN  (Wrapped(xin) \/ IsList(xin)) =>
            /\ xout.exc \notin {"idle", "pending"} => xout = Returned(expected)
            /\ xwiki.exc \notin {"idle", "pending"} => xwiki = Returned(expected)

\* C12: every run follows DISCOVER ROUTES, an upload for each file, ATTACH
\* (batched), EMBED, VERIFY, DONE: no upload request before discovery has
\* finished, no attach request before the upload of the last file has
\* finished, exactly one embed request, issued after the last attach batch
\* whatever the batches returned, and the list request is the last request.
C12_PipelineOrder ==
    /\ (attempts # <<>> \/ up_ret.done \/ file > 1)
          => (pc # "probe" /\ self_paths # NoPaths)
    /\ attach_calls # <<>> => file > nfiles
    /\ embed_calls # <<>>
          => /\ file > nfiles
             /\ Len(attach_calls) = NBatches(Len(uploaded_ids))
    /\ list_calls # <<>> => (Len(embed_calls) = 1 /\ RunOver)
    /\ Len(embed_calls) <= 1
    /\ Len(list_calls) <= 1
    /\ (RunOver /\ file > nfiles)
          => (pc = "done" /\ Len(embed_calls) = 1 /\ Len(list_calls) = 1)

\* C16: no attach request carries more than 200 identifiers, in either
\* ingestor, for any number of uploaded identifiers.
C16_AttachAtMost200 ==
    \A n \in 1..Len(attach_calls) : Len(attach_calls[n].ids) <= 200

\* C13: a missing document-store base URL or API key is fatal before any
\* network activity: the constructor raises before the first description
\* probe, and main (the wiki script: its module-level validation) rejects
\* the configuration before any source-system or document-store request.
NoRequestYet ==
    /\ src.requests = 0
    /\ probed = <<>> /\ probe_resp = NoResp
    /\ attempts = <<>> /\ file = 1 /\ uploaded_ids = <<>>
    /\ attach_calls = <<>> /\ embed_calls = <<>> /\ list_calls = <<>>

C13_ConfigFatalBeforeNetwork ==
    (cfg.base = "" \/ cfg.key = "") =>
        /\ NoRequestYet
        /\ pc \in {"main", "import", "construct", "exit"}
        /\ pc = "exit" <=> exc \in {"main", "import", "AnythingLLM.__init__"}

C13_ConstructorRejects ==
    /\ pc = "exit"
    /\ exc = "AnythingLLM.__init__"
    /\ cfg.base # "" /\ cfg.key = ""
    /\ NoRequestYet

\* C14: every request URL built from a route of the table has its
\* placeholder substituted: no upload, attach, embed or list request goes to
\* a URL containing a literal {workspace} or :workspace, on any rung, for a
\* discovered route as for a default one.
Substituted(url) == ~Contains(url, "{workspace}") /\ ~Contains(url, ":workspace")

C14_PlaceholderSubstituted ==
    /\ \A n \in 1..Len(attempts) : Substituted(attempts[n].url)
    /\ \A n \in 1..Len(attach_calls) : Substituted(attach_calls[n].url)
    /\ \A n \in 1..Len(embed_calls) : Substituted(embed_calls[n].url)
    /\ \A n \in 1..Len(list_calls) : Substituted(list_calls[n].url)

\* C15: the route table is populated once at construction and immutable
\* afterwards: once the constructor has returned, every upload, attach,
\* embed and list step leaves the table as it was, each of the five
\* operations mapped to a non-null route.
C15_RouteTableImmutable ==
    [][Constructed =>
          /\ self_paths' = self_paths
          /\ DOMAIN self_paths' = {"upload_ws", "upload_user", "attach", "embed",
                                   "list_ws_docs"}
          /\ \A o \in DOMAIN self_paths' : self_paths'[o] \notin {NONE, ""}]_vars

C15_DiscoveredTableKept ==
    /\ pc = "done"
    /\ openapi.got
    /\ self_paths.attach = "/v1/Workspaces/:workspace/Documents/add"
    /\ Len(attach_calls) > 0 /\ Len(embed_calls) = 1 /\ Len(list_calls) = 1

\* C17: open issues are filtered out of the export: no issue yielded by
\* iter_issues, on any page, with or without a since-date, has a status name
\* that lower-cases to new, open, in progress, feedback or assigned, and
\* every served issue with another status that passes the date filter is
\* yielded.
IsOpen(it) ==
    /\ HasKey(it, "status")
    /\ Lower(Item(Item(it, "status"), "name").s)
          \in {"new", "open", "in progress", "feedback", "assigned"}

PassesDate(it) ==
    src.since = NONE
    \/ \E k \in {"updated_on", "created_on"} :
          /\ HasKey(it, k) /\ Item(it, k) # JNull
          /\ (k = "created_on" => (~HasKey(it, "updated_on") \/ Item(it, "updated_on") = JNull))
          /\ StrLE(src.since, Item(it, k).s)

Exported(it) == ~IsOpen(it) /\ PassesDate(it)

C17_OpenIssuesFiltered ==
    src.pc \in {"loop", "end", "raised"} =>
        /\ \A n \in 1..Len(src.yielded) : ~IsOpen(src.yielded[n])
        /\ src.yielded = SelectSeq(src.served, Exported)

C17_SecondPageFiltered ==
    /\ src.pc = "end"
    /\ src.since # NONE
    /\ src.requests = 2
    /\ Len(src.served) = 2
    /\ ~IsOpen(src.served[1])
    /\ IsOpen(src.served[2])
    /\ src.yielded = <<src.served[1]>>

\* C18: description probing requests /api/docs-json, /api/openapi.json,
\* /api/docs.json in that order, accepts the first response that is HTTP 200
\* with a JSON content type and a parsable body, requests no later candidate
\* once one is accepted, and scans the accepted description alone.
Acceptable(r) ==
    /\ r.kind = "http"
    /\ r.status = 200
    /\ \E n \in 1..(Len(r.ctype) - 15) : SubSeq(r.ctype, n, n + 15) = "application/json"
    /\ r.parsable

C18_ProbeOrder ==
    /\ [](/\ Len(probed) <= 3
          /\ \A n \in 1..Len(probed) :
                probed[n] = <<"http://anyl/api/docs-json", "http://anyl/api/openapi.json",
                              "http://anyl/api/docs.json">>[n]
          /\ pc = "probe" => /\ ~openapi.got
                             /\ probed # <<>> => ~Acceptable(probe_resp)
          /\ (pc # "probe" /\ probe_resp # NoResp)
                => /\ openapi.got <=> Acceptable(probe_resp)
                   /\ openapi.got => openapi.json = probe_resp.json
                   /\ ~openapi.got => Len(probed) = 3
          /\ Constructed =>
                \A o \in DOMAIN self_paths :
                    \/ self_paths[o] = Defaults[o]
                    \/ /\ openapi.got
                       /\ HasKey(Item(openapi.json, "paths"), self_paths[o]))
    /\ [][pc # "probe" => probed' = probed]_vars

C18_SecondCandidateAccepted ==
    /\ pc = "upload"
    /\ probe_resp # NoResp
    /\ openapi.got
    /\ probed = <<"http://anyl/api/docs-json", "http://anyl/api/openapi.json">>
    /\ self_paths.upload_ws = "/api/v1/workspaces/{workspace}/documents/upload"

\* C19: a path is selected as upload_workspace only if it contains the
\* workspace-scope marker and the upload marker and supports POST; as
\* upload_user_library only if it does not contain the workspace-scope
\* marker; the route selected as list_documents never contains the `sources`
\* marker and always supports GET; a discovered route never fails its
\* operation's predicate.
Has(path, marker) ==
    \E n \in 1..(Len(path) - Len(marker) + 1) :
        Lower(SubSeq(path, n, n + Len(marker) - 1)) = marker

Supports(path, method) ==
    HasKey(Item(Item(openapi.json, "paths"), path), method)

Qualifies(o, path) ==
    /\ HasKey(Item(openapi.json, "paths"), path)
    /\ IF o = "upload_ws"
       THEN Has(path, "workspaces") /\ Has(path, "upload") /\ Supports(path, "post")
       ELSE IF o = "upload_user"
       THEN /\ ~Has(path, "workspaces") /\ Has(path, "documents") /\ Has(path, "upload")
            /\ Supports(path, "post")
       ELSE IF o = "attach"
       THEN /\ Has(path, "workspaces") /\ Has(path, "documents")
            /\ (Has(path, "attach") \/ Has(path, "add")) /\ Supports(path, "post")
       ELSE IF o = "embed"
       THEN /\ Has(path, "workspaces") /\ Has(path, "documents") /\ Has(path, "embed")
            /\ Supports(path, "post")
       ELSE /\ Has(path, "workspaces") /\ Has(path, "documents")
            /\ ~Has(path, "sources") /\ Supports(path, "get")

C19_RouteClassification ==
    Constructed =>
        \A o \in DOMAIN self_paths :
            \/ self_paths[o] = Defaults[o]
            \/ openapi.got /\ Qualifies(o, self_paths[o])

C19_ListRouteNotSources ==
    /\ Constructed
    /\ openapi.got
    /\ IsDict(openapi.json) /\ HasKey(openapi.json, "paths")
    /\ IsDict(Item(openapi.json, "paths"))
    /\ HasKey(Item(openapi.json, "paths"), "/api/v1/workspaces/{workspace}/documents/sources")
    /\ self_paths.list_ws_docs = "/api/v1/workspaces/{workspace}/documents"
    /\ self_paths.upload_ws = "/api/v1/workspaces/{workspace}/documents/upload"
    /\ self_paths.upload_user = "/api/v1/documents/upload"
    /\ pc = "done"

\* C20: a 2xx upload response from which no identifier is extracted is never
\* reported as success: _try_upload goes on to the next field name, sending
\* the file again to the same URL, and returns empty when all four field
\* names end this way; a non-2xx status and a transport exception move to
\* the next field name in the same way.
C20_EmptySuccessContinues ==
    /\ [][(pc = "upload" /\ last'.kind \in {"no_ids", "status", "exc"}) =>
            /\ ~attempts'[Len(attempts')].ok
            /\ uploaded_ids' = uploaded_ids
            /\ IF field < 4
               THEN /\ pc' = "upload" /\ file' = file /\ ~up_ret'.done
                    /\ rung' = rung /\ field' = field + 1
               ELSE IF rung < 4
               THEN /\ pc' = "upload" /\ file' = file /\ ~up_ret'.done
                    /\ rung' = rung + 1 /\ field' = 1
               ELSE /\ up_ret' = [done |-> TRUE, ids |-> <<>>]
                    /\ file' = file + 1]_vars
    /\ [](\A n \in 2..Len(attempts) :
            RouteOf(n) = RouteOf(n - 1) =>
                /\ attempts[n].url = attempts[n - 1].url
                /\ ~attempts[n - 1].ok)
    /\ []((pc = "upload" /\ ~up_ret.done /\ last.kind \in {"no_ids", "status", "exc"})
            => Len(attempts) = 4 * (rung - 1) + field - 1)

C20_FourEmptySuccesses ==
    /\ pc = "upload"
    /\ last.kind = "no_ids"
    /\ Len(attempts) = 4
    /\ rung = 2 /\ field = 1
    /\ ~up_ret.done
    /\ uploaded_ids = <<>>

\* iter_issues is over: the generator is exhausted, or ensure_ok raised
IterOver == src.pc \in {"end", "raised"}

\* C21: Redmine.iter_issues terminates for every sequence of page responses,
\* a page of zero issues below total_count included: every run of the
\* pagination loop eventually leaves it
C21_IterIssuesTerminates == <>IterOver

\* the POSTs of the current file's upload that went to url
PostsTo(url) == Cardinality({n \in 1..Len(attempts) : attempts[n].url = url})

DefaultUploadUrl == "http://anyl/api/v1/document/upload"

\* C22: the upload of one file ends after a bounded number of requests:
\* every POST of a file's upload is the next one of 4 routes times 4 field
\* names, so there are at most 16 per file, and exactly 16 when the call
\* returns with every attempt having yielded no identifier; with the
\* default route table the first two routes are the same URL, which
\* receives at most 8 of the POSTs, and 8 when all 16 are made.
C22_UploadBounded ==
    /\ [][(pc = "upload" /\ pc' = "upload" /\ file' = file)
            => Len(attempts') = 4 * (rung - 1) + field]_vars
    /\ [](Len(attempts) <= 16)
    /\ []((up_ret.done /\ \A n \in 1..Len(attempts) : ~attempts[n].ok)
            => Len(attempts) = 16)
    /\ [](self_paths = Defaults =>
            /\ \A n \in 1..Len(attempts) :
                  attempts[n].url = DefaultUploadUrl <=> RouteOf(n) \in {1, 2}
            /\ PostsTo(DefaultUploadUrl) <= 8
            /\ Len(attempts) = 16 => PostsTo(DefaultUploadUrl) = 8)

C22_SixteenPostsEightSame ==
    /\ self_paths = Defaults
    /\ up_ret = [done |-> TRUE, ids |-> <<>>]
    /\ Len(attempts) = 16
    /\ \A n \in 1..16 : ~attempts[n].ok
    /\ PostsTo(DefaultUploadUrl) = 8
    /\ attempts[1].url = attempts[5].url

====
